---- MODULE Spec2Model ----
(***************************************************************************)
(* fty-shm: metrics shared through small files of one directory.          *)
(* Strings are sequences of byte codes.  A directory entry name is the    *)
(* part of the path after "<shm_dir>/".                                   *)
(***************************************************************************)
EXTENDS Integers, Sequences, FiniteSets, TLC

\* ------------------------------------------------------------------ bytes
NUL == 0
CH_LF == 10
CH_SP == 32
CH_PLUS == 43
CH_MINUS == 45
CH_SLASH == 47
CH_0 == 48
CH_COLON == 58

Rep(c, n) == [i \in 1..n |-> c]

\* memchr(s, c, len) != NULL
memchr(s, c) == \E i \in 1..Len(s) : s[i] = c

\* strchr: the index of the first c in s, 0 when there is none
\* a local computed once: F at the value of e
ByValue(e, F(_)) == CHOOSE r \in {F(x) : x \in {e}} : TRUE

strchr(s, c) ==
    LET at == {i \in 1..Len(s) : s[i] = c}
    IN  IF at = {} THEN 0 ELSE CHOOSE i \in at : \A j \in at : i <= j

\* the C string that starts at s[1]: the bytes before the first NUL
CStr(s) ==
    LET z == strchr(s, NUL)
    IN  IF z = 0 THEN s ELSE SubSeq(s, 1, z - 1)

\* C integer division truncates toward zero
CDiv(a, b) == IF a >= 0 THEN a \div b ELSE -((-a) \div b)

\* --------------------------------------------------------------- layout
METRIC_SUFFIX == <<46, 109, 101, 116, 114, 105, 99>>
SUFFIX_LEN == Len(METRIC_SUFFIX)
DELETE_NAME == <<46, 100, 101, 108, 101, 116, 101>>
TTL_LEN == 10
UNIT_START == TTL_LEN + 1
UNIT_LEN == 10
PAYLOAD_START == UNIT_START + UNIT_LEN + 1
PAYLOAD_LEN == 128 - PAYLOAD_START
BUF_LEN == PAYLOAD_START + PAYLOAD_LEN
NAME_MAX == 255
INT_MAX == 2147483647

\* ----------------------------------------------------------- name codec
\* prepare_filename with the length test off by one
prepare_filename_ge(asset, metric) ==
    IF Len(asset) + 1 + Len(metric) + SUFFIX_LEN >= NAME_MAX
    THEN [ret |-> -1, errno |-> "ENAMETOOLONG", name |-> <<>>]
    ELSE IF memchr(asset, CH_SLASH) \/ memchr(asset, CH_COLON)
            \/ memchr(metric, CH_SLASH) \/ memchr(metric, CH_COLON)
    THEN [ret |-> -1, errno |-> "EINVAL", name |-> <<>>]
    ELSE [ret |-> 0, errno |-> "",
          name |-> asset \o <<CH_COLON>> \o metric \o METRIC_SUFFIX]

\* prepare_filename: the length test comes first, then the character test
prepare_filename(asset, metric) ==
    IF Len(asset) + 1 + Len(metric) + SUFFIX_LEN > NAME_MAX
    THEN [ret |-> -1, errno |-> "ENAMETOOLONG", name |-> <<>>]
    ELSE IF memchr(asset, CH_SLASH) \/ memchr(asset, CH_COLON)
            \/ memchr(metric, CH_SLASH) \/ memchr(metric, CH_COLON)
    THEN [ret |-> -1, errno |-> "EINVAL", name |-> <<>>]
    ELSE [ret |-> 0, errno |-> "",
          name |-> asset \o <<CH_COLON>> \o metric \o METRIC_SUFFIX]

\* the entry name of a legal pair
EntryName(asset, metric) == asset \o <<CH_COLON>> \o metric \o METRIC_SUFFIX

\* strncmp(d_name + len - SUFFIX_LEN, METRIC_SUFFIX, SUFFIX_LEN) == 0,
\* for a name at least SUFFIX_LEN long
HasSuffix(name) ==
    SubSeq(name, Len(name) - SUFFIX_LEN + 1, Len(name)) = METRIC_SUFFIX

\* --------------------------------------------------------- record codec
\* the loop of write_value: buf[i] = '0' + ttl % 10; ttl /= 10
RECURSIVE TtlDigits(_, _, _)
TtlDigits(ttl, i, acc) ==
    IF i = 0 THEN acc
    ELSE TtlDigits(ttl \div 10, i - 1, <<CH_0 + (ttl % 10)>> \o acc)

\* the 128 bytes write_value builds (value and unit already length-checked)
EncodeBuf(value, unit, ttl) ==
    LET t == IF ttl < 0 THEN 0 ELSE ttl
    IN  TtlDigits(t, TTL_LEN, <<>>) \o <<CH_LF>>
        \o unit \o Rep(CH_SP, UNIT_LEN - Len(unit)) \o <<CH_LF>>
        \o value \o Rep(NUL, PAYLOAD_LEN - Len(value))

IsSpace(c) == c \in {32, 9, 10, 11, 12, 13}
IsDigit(c) == c >= CH_0 /\ c <= CH_0 + 9

RECURSIVE SkipSpace(_, _)
SkipSpace(s, i) ==
    IF i <= Len(s) /\ IsSpace(s[i]) THEN SkipSpace(s, i + 1) ELSE i

RECURSIVE ScanDigits(_, _, _)
ScanDigits(s, i, acc) ==
    IF i <= Len(s) /\ IsDigit(s[i])
    THEN ScanDigits(s, i + 1, acc * 10 + (s[i] - CH_0))
    ELSE [val |-> acc, end |-> i]

\* strtol(s, &end, 10) on a NUL-terminated string: white space, an optional
\* sign, digits.  end is the index of the first byte not consumed, 1 when
\* no digit was found.
strtol(str) ==
    ByValue(CStr(str), LAMBDA s :
    ByValue(SkipSpace(s, 1), LAMBDA i0 :
    LET signed == i0 <= Len(s) /\ s[i0] \in {CH_PLUS, CH_MINUS}
        neg == signed /\ s[i0] = CH_MINUS
        i1 == IF signed THEN i0 + 1 ELSE i0
    IN  ByValue(ScanDigits(s, i1, 0), LAMBDA d :
        IF d.end = i1 THEN [val |-> 0, end |-> 1]
        ELSE [val |-> IF neg THEN -d.val ELSE d.val, end |-> d.end])))

\* parse_ttl: ttl_str[TTL_LEN] = '\0', then strtol must consume TTL_LEN bytes
parse_ttl(ttl_str) ==
    ByValue(strtol(SubSeq(ttl_str, 1, TTL_LEN) \o <<NUL>>), LAMBDA r :
        IF r.end # TTL_LEN + 1
        THEN [ret |-> -1, errno |-> "ERANGE", ttl |-> 0]
        ELSE [ret |-> 0, errno |-> "", ttl |-> r.val])

\* the unit trimming loop of read_value on the 128-byte buffer, 0-based
\* index i into unit_buf = buf + UNIT_START; buf[TTL_LEN] is already '\0'
RECURSIVE TrimIndex(_, _)
TrimIndex(buf, i) ==
    IF buf[UNIT_START + i + 1] = CH_SP \/ buf[UNIT_START + i + 1] = CH_LF
    THEN TrimIndex(buf, i - 1)
    ELSE i

\* the staleness test with >= for >
IsStale_ge(ttl, mtime, t) == ttl # 0 /\ t - mtime >= ttl

\* if (ttl) { now = time(NULL); if (now - st.st_mtime > ttl) ... ESTALE }
IsStale(ttl, mtime, t) == ttl # 0 /\ t - mtime > ttl

\* what read_value decodes from a complete buffer read at time now, the
\* file's mtime being mtime.  over is what lies in memory after buf: it is
\* read when the payload holds no NUL.
DecodeBuf(data, mtime, now, need_unit, over) ==
    LET buf0 == [data EXCEPT ![TTL_LEN + 1] = NUL]
        p == parse_ttl(buf0)
        i == TrimIndex(buf0, UNIT_LEN)
        buf1 == IF need_unit
                THEN [buf0 EXCEPT ![UNIT_START + i + 2] = NUL]
                ELSE buf0
        unit == CStr(SubSeq(buf1, UNIT_START + 1, BUF_LEN))
        value == CStr(SubSeq(buf1, PAYLOAD_START + 1, BUF_LEN) \o over \o <<NUL>>)
    IN  IF p.ret < 0 THEN [ret |-> -1, errno |-> p.errno, value |-> <<>>, unit |-> <<>>]
        ELSE IF IsStale(p.ttl, mtime, now)
        THEN [ret |-> -1, errno |-> "ESTALE", value |-> <<>>, unit |-> <<>>]
        ELSE [ret |-> 0, errno |-> "", value |-> value, unit |-> unit]

\* ----------------------------------------------------------- file system
\* fs.dir: entry name -> inode number; fs.files: inode number -> the file
\* (data, mtime); fs.next: the next inode number the file system hands out.
Drop(f, k) == [x \in (DOMAIN f) \ {k} |-> f[x]]
Put(f, k, v) == [x \in (DOMAIN f) \cup {k} |-> IF x = k THEN v ELSE f[x]]

EmptyFn == [x \in {} |-> 0]

EmptyFs == [dir |-> EmptyFn, files |-> EmptyFn, next |-> 1]

Linked(fs) == {fs.dir[n] : n \in DOMAIN fs.dir}

\* an inode lives while a name or an open descriptor refers to it
Reclaim(fs, open) ==
    [fs EXCEPT !.files = [i \in (DOMAIN fs.files) \cap (Linked(fs) \cup open)
                            |-> fs.files[i]]]

\* open(name, O_CREAT | O_RDWR): the existing file, or a new empty one
sys_open_creat(fs, name, t) ==
    IF name \in DOMAIN fs.dir
    THEN [fs |-> fs, fd |-> fs.dir[name]]
    ELSE [fs |-> [dir |-> Put(fs.dir, name, fs.next),
                  files |-> Put(fs.files, fs.next, [data |-> <<>>, mtime |-> t]),
                  next |-> fs.next + 1],
          fd |-> fs.next]

\* pwrite(fd, buf, sizeof(buf), 0)
sys_pwrite(fs, fd, buf, t) ==
    [fs EXCEPT !.files[fd] =
        [data |-> buf \o SubSeq(@.data, Len(buf) + 1, Len(@.data)),
         mtime |-> t]]

sys_unlink(fs, name) == [fs EXCEPT !.dir = Drop(@, name)]

\* rename(src, dst), replacing dst
sys_rename(fs, src, dst) ==
    [fs EXCEPT !.dir = Put(Drop(@, src), dst, fs.dir[src])]

\* ---------------------------------------------------------- metric store
\* write_value with the open before the length tests
write_value_open_first(fs, name, value, unit, ttl, t) ==
    LET o == sys_open_creat(fs, name, t)
    IN  IF Len(value) > PAYLOAD_LEN THEN [fs |-> o.fs, ret |-> -1, errno |-> "EINVAL"]
        ELSE IF Len(unit) > UNIT_LEN THEN [fs |-> o.fs, ret |-> -1, errno |-> "EINVAL"]
        ELSE [fs |-> sys_pwrite(o.fs, o.fd, EncodeBuf(value, unit, ttl), t),
              ret |-> 0, errno |-> ""]

\* write_value, as one uninterrupted call
write_value(fs, name, value, unit, ttl, t) ==
    IF Len(value) > PAYLOAD_LEN THEN [fs |-> fs, ret |-> -1, errno |-> "EINVAL"]
    ELSE IF Len(unit) > UNIT_LEN THEN [fs |-> fs, ret |-> -1, errno |-> "EINVAL"]
    ELSE LET o == sys_open_creat(fs, name, t)
         IN  [fs |-> sys_pwrite(o.fs, o.fd, EncodeBuf(value, unit, ttl), t),
              ret |-> 0, errno |-> ""]

fty_shm_write_metric(fs, asset, metric, value, unit, ttl, t) ==
    LET f == prepare_filename(asset, metric)
    IN  IF f.ret < 0 THEN [fs |-> fs, ret |-> -1, errno |-> f.errno]
        ELSE write_value(fs, f.name, value, unit, ttl, t)

\* read_buf of the whole record and what follows it in read_value, on an
\* open descriptor whose fstat gave st_mtime
read_fd(fs, fd, st_mtime, need_unit, t, over) ==
    LET data == fs.files[fd].data
    IN  IF Len(data) < BUF_LEN
        THEN [ret |-> -1, errno |-> "EIO", value |-> <<>>, unit |-> <<>>]
        ELSE DecodeBuf(SubSeq(data, 1, BUF_LEN), st_mtime, t, need_unit, over)

\* read_value, as one uninterrupted call
read_value(fs, name, need_unit, t, over) ==
    IF name \notin DOMAIN fs.dir
    THEN [ret |-> -1, errno |-> "ENOENT", value |-> <<>>, unit |-> <<>>]
    ELSE read_fd(fs, fs.dir[name], fs.files[fs.dir[name]].mtime, need_unit, t, over)

\* the outputs assigned before the outcome is known
read_outputs_early(r, need_unit, out) ==
    [ret |-> r.ret, errno |-> r.errno, value |-> r.value,
     unit |-> IF need_unit THEN r.unit ELSE out.unit]

\* what the caller's value and unit hold after read_value returned r, when
\* they held out before
read_outputs(r, need_unit, out) ==
    IF r.ret < 0
    THEN [ret |-> -1, errno |-> r.errno, value |-> out.value, unit |-> out.unit]
    ELSE [ret |-> 0, errno |-> "", value |-> r.value,
          unit |-> IF need_unit THEN r.unit ELSE out.unit]

fty_shm_read_metric(fs, asset, metric, need_unit, t, over, out) ==
    LET f == prepare_filename(asset, metric)
    IN  IF f.ret < 0
        THEN [ret |-> -1, errno |-> f.errno, value |-> out.value, unit |-> out.unit]
        ELSE read_outputs(read_value(fs, f.name, need_unit, t, over), need_unit, out)

\* ------------------------------------------------------ directory scanner
\* readdir: the scans below visit a snapshot of the entry names, one by one
NextEntry(todo) == CHOOSE n \in todo : TRUE

\* the loop of delete_asset without the comparison of the asset
delete_entry_any(fs, de, asset) ==
    IF strchr(de, CH_COLON) = 0 THEN [fs |-> fs, err |-> 0]
    ELSE IF de \notin DOMAIN fs.dir THEN [fs |-> fs, err |-> -1]
    ELSE [fs |-> sys_unlink(fs, de), err |-> 0]

\* one turn of the loop of fty_shm_delete_asset
delete_entry(fs, de, asset) ==
    LET delim == strchr(de, CH_COLON)
    IN  IF delim = 0 THEN [fs |-> fs, err |-> 0]
        ELSE IF SubSeq(de, 1, delim - 1) # asset THEN [fs |-> fs, err |-> 0]
        ELSE IF de \notin DOMAIN fs.dir THEN [fs |-> fs, err |-> -1]
        ELSE [fs |-> sys_unlink(fs, de), err |-> 0]

RECURSIVE delete_scan(_, _, _, _)
delete_scan(fs, todo, asset, err) ==
    IF todo = {} THEN [fs |-> fs, ret |-> err]
    ELSE LET de == NextEntry(todo)
             r == delete_entry(fs, de, asset)
         IN  delete_scan(r.fs, todo \ {de}, asset, IF r.err < 0 THEN -1 ELSE err)

\* dirOk: opendir(shm_dir) succeeded
fty_shm_delete_asset(fs, asset, dirOk) ==
    IF ~dirOk THEN [fs |-> fs, ret |-> -1]
    ELSE delete_scan(fs, DOMAIN fs.dir, asset, 0)

\* the loop of find_assets without the test of seen
RECURSIVE find_scan_nodedup(_, _, _)
find_scan_nodedup(todo, seen, assets) ==
    IF todo = {} THEN assets
    ELSE LET de == NextEntry(todo)
             delim == strchr(de, CH_COLON)
         IN  IF delim = 0 THEN find_scan_nodedup(todo \ {de}, seen, assets)
             ELSE find_scan_nodedup(todo \ {de}, seen,
                                    Append(assets, SubSeq(de, 1, delim - 1)))

\* the loop of find_assets: seen is the unordered_set, assets the vector
RECURSIVE find_scan(_, _, _)
find_scan(todo, seen, assets) ==
    IF todo = {} THEN assets
    ELSE LET de == NextEntry(todo)
             delim == strchr(de, CH_COLON)
             a == SubSeq(de, 1, delim - 1)
         IN  IF delim = 0 THEN find_scan(todo \ {de}, seen, assets)
             ELSE IF a \in seen THEN find_scan(todo \ {de}, seen, assets)
             ELSE find_scan(todo \ {de}, seen \cup {a}, Append(assets, a))

\* assets_in: what the caller's vector held before the call
find_assets(fs, assets_in, dirOk) ==
    IF ~dirOk THEN [ret |-> -1, assets |-> assets_in]
    ELSE [ret |-> 0, assets |-> find_scan(DOMAIN fs.dir, {}, <<>>)]

\* the loop of read_asset_metrics: err starts at -1 and a successful
\* read_value sets it to 0
RECURSIVE metrics_scan(_, _, _, _, _, _, _)
metrics_scan(fs, todo, asset, err, metrics, t, over) ==
    IF todo = {} THEN [ret |-> err, metrics |-> metrics]
    ELSE LET de == NextEntry(todo)
             rest == todo \ {de}
             delim == strchr(de, CH_COLON)
             len == Len(de)
             asset_len == delim - 1
             metric_len == len - asset_len - 1 - SUFFIX_LEN
             r == read_value(fs, de, TRUE, t, over)
             m == SubSeq(de, delim + 1, delim + metric_len)
         IN  IF delim = 0 \/ len < SUFFIX_LEN
             THEN metrics_scan(fs, rest, asset, err, metrics, t, over)
             ELSE IF ~HasSuffix(de)
             THEN metrics_scan(fs, rest, asset, err, metrics, t, over)
             ELSE IF SubSeq(de, 1, asset_len) # asset
             THEN metrics_scan(fs, rest, asset, err, metrics, t, over)
             ELSE IF r.ret < 0
             THEN metrics_scan(fs, rest, asset, err, metrics, t, over)
             ELSE metrics_scan(fs, rest, asset, 0,
                     IF m \in DOMAIN metrics THEN metrics
                     ELSE Put(metrics, m, [value |-> r.value, unit |-> r.unit]),
                     t, over)

\* read_asset_metrics with err starting at 0
read_asset_metrics_err0(fs, asset, metrics_in, dirOk, t, over) ==
    IF ~dirOk THEN [ret |-> -1, metrics |-> metrics_in]
    ELSE metrics_scan(fs, DOMAIN fs.dir, asset, 0, EmptyFn, t, over)

\* metrics_in: what the caller's map held before the call
read_asset_metrics(fs, asset, metrics_in, dirOk, t, over) ==
    IF ~dirOk THEN [ret |-> -1, metrics |-> metrics_in]
    ELSE metrics_scan(fs, DOMAIN fs.dir, asset, -1, EmptyFn, t, over)

\* ------------------------------------------------------ garbage collector
\* openat + fstat of an entry: st1
cleanup_stat(fs, de) ==
    LET i == fs.dir[de]
    IN  [ino |-> i, mtime |-> fs.files[i].mtime, size |-> Len(fs.files[i].data)]

\* the age test without the halving: kept while now - mtime <= 2 * ttl
TooYoung_twice(ttl, mtime, t) == t - mtime <= 2 * ttl

\* if ((now - st1.st_mtime) / 2 <= ttl) continue;
TooYoung(ttl, mtime, t) == CDiv(t - mtime, 2) <= ttl

\* from the size test to the age test, on the open descriptor
cleanup_judge(fs, st1, t) ==
    LET data == fs.files[st1.ino].data
        p == parse_ttl(SubSeq(data, 1, TTL_LEN + 1))
    IN  IF st1.size < PAYLOAD_START THEN "skip"
        ELSE IF Len(data) < TTL_LEN + 1 THEN "err"
        ELSE IF p.ret < 0 THEN "err"
        ELSE IF p.ttl = 0 THEN "skip"
        ELSE IF TooYoung(p.ttl, st1.mtime, t) THEN "skip"
        ELSE "eligible"

\* rename_noreplace(".delete", de), and unlinkat(".delete") when it fails
cleanup_restore(fs, de) ==
    IF DELETE_NAME \notin DOMAIN fs.dir
    THEN [fs |-> fs, err |-> -1]
    ELSE IF de \in DOMAIN fs.dir
    THEN [fs |-> sys_unlink(fs, DELETE_NAME), err |-> -1]
    ELSE [fs |-> sys_rename(fs, DELETE_NAME, de), err |-> 0]

\* the turn with the comparison of st1 and st2 inverted
cleanup_remove_inverted(fs, de, st1) ==
    IF de \notin DOMAIN fs.dir THEN [fs |-> fs, err |-> -1]
    ELSE LET fs1 == sys_rename(fs, de, DELETE_NAME)
             st2 == fs1.dir[DELETE_NAME]
         IN  IF st1.ino # st2
             THEN [fs |-> sys_unlink(fs1, DELETE_NAME), err |-> 0]
             ELSE cleanup_restore(fs1, de)

\* from renameat to the end of the turn, st_dev being the directory's
cleanup_remove(fs, de, st1) ==
    IF de \notin DOMAIN fs.dir THEN [fs |-> fs, err |-> -1]
    ELSE LET fs1 == sys_rename(fs, de, DELETE_NAME)
             st2 == fs1.dir[DELETE_NAME]
         IN  IF st1.ino = st2
             THEN [fs |-> sys_unlink(fs1, DELETE_NAME), err |-> 0]
             ELSE cleanup_restore(fs1, de)

\* one turn of the loop of fty_shm_cleanup, uninterrupted
cleanup_entry(fs, de, t) ==
    IF Len(de) < SUFFIX_LEN THEN [fs |-> fs, err |-> 0]
    ELSE IF ~HasSuffix(de) THEN [fs |-> fs, err |-> 0]
    ELSE IF de \notin DOMAIN fs.dir THEN [fs |-> fs, err |-> -1]
    ELSE LET st1 == cleanup_stat(fs, de)
             v == cleanup_judge(fs, st1, t)
         IN  IF v = "skip" THEN [fs |-> fs, err |-> 0]
             ELSE IF v = "err" THEN [fs |-> fs, err |-> -1]
             ELSE cleanup_remove(fs, de, st1)

\* a scan that returns at the first entry that fails
RECURSIVE cleanup_scan_stop(_, _, _, _)
cleanup_scan_stop(fs, todo, err, t) ==
    IF todo = {} THEN [fs |-> fs, ret |-> err]
    ELSE LET de == NextEntry(todo)
             r == cleanup_entry(fs, de, t)
         IN  IF r.err < 0 THEN [fs |-> r.fs, ret |-> -1]
             ELSE cleanup_scan_stop(r.fs, todo \ {de}, err, t)

RECURSIVE cleanup_scan(_, _, _, _)
cleanup_scan(fs, todo, err, t) ==
    IF todo = {} THEN [fs |-> fs, ret |-> err]
    ELSE LET de == NextEntry(todo)
             r == cleanup_entry(fs, de, t)
         IN  cleanup_scan(r.fs, todo \ {de}, IF r.err < 0 THEN -1 ELSE err, t)

fty_shm_cleanup(fs, dirOk, t) ==
    IF ~dirOk THEN [fs |-> fs, ret |-> -1]
    ELSE cleanup_scan(fs, DOMAIN fs.dir, 0, t)

\* ------------------------------------------------------------------ state
\* fs: the directory and its files.  now: the clock, in seconds.
\* res: the last call of the sequential callers and what it returned.
\* hist: for each inode, the write_metric request that wrote it last (history).
\* proc: the position and the locals of the concurrent callers.
\* obs: what the concurrent runs record for the properties (history).
VARIABLES fs, now, res, hist, proc, obs

vars == <<fs, now, res, hist, proc, obs>>

\* the clock stops at MaxTime (at ScanMaxTime where several records are
\* scanned and where a reader runs against a writer)
\* and the file system hands out the inode numbers 1..MaxIno
MaxTime == 4
ScanMaxTime == 2
MaxIno == 3

\* ----------------------------------------------------------------- inputs
AssetA == <<97>>
AssetB == <<98>>
MetricM == <<109>>
MetricN == <<110>>
Assets == {AssetA, AssetB}
Metrics == {MetricM, MetricN}

Req(a, m, v, u, ttl) == [asset |-> a, metric |-> m, value |-> v, unit |-> u, ttl |-> ttl]

\* one record under the clock: it never expires, it expires after a second,
\* it is written with a negative ttl
TtlWrites ==
    { Req(AssetA, MetricM, <<120>>, <<117>>, 0),
      Req(AssetA, MetricM, <<121>>, <<118>>, 1),
      Req(AssetA, MetricM, <<120, 121>>, <<117>>, -1) }

TtlReads == { [asset |-> AssetA, metric |-> MetricM] }

\* three records of two assets: one that never expires, two that do
ScanWrites ==
    { Req(AssetA, MetricM, <<120>>, <<117>>, 0),
      Req(AssetA, MetricN, <<121>>, <<118>>, 1),
      Req(AssetB, MetricM, <<121>>, <<118>>, 1) }

\* names for the codec specification: legal, illegal, at the limit, beyond
LongLen == NAME_MAX - 1 - Len(MetricM) - SUFFIX_LEN
AssetSlash == <<97, CH_SLASH>>
AssetColon == <<CH_COLON, 97>>
MetricSlash == <<CH_SLASH>>
MetricColon == <<109, CH_COLON, 109>>
AssetAtLimit == Rep(65, LongLen)
AssetBeyond == Rep(65, LongLen + 1)
AssetAtLimitSlash == Rep(65, LongLen - 1) \o <<CH_SLASH>>
AssetBeyondSlash == Rep(65, LongLen) \o <<CH_SLASH>>
MetricBeyond == Rep(65, NAME_MAX + 9)

CodecNames ==
    { [asset |-> a, metric |-> MetricM] :
        a \in {AssetA, AssetSlash, AssetColon, AssetAtLimit, AssetBeyond,
               AssetAtLimitSlash, AssetBeyondSlash} }
    \cup { [asset |-> AssetA, metric |-> m] :
             m \in {MetricSlash, MetricColon, MetricBeyond} }

CodecValues ==
    { <<>>, <<120>>, <<104, 105>>, Rep(120, PAYLOAD_LEN - 1), Rep(120, PAYLOAD_LEN),
      Rep(120, PAYLOAD_LEN + 1) }

CodecUnits ==
    { <<>>, <<117>>, <<117, CH_SP>>, <<CH_SP, 117>>, Rep(117, UNIT_LEN),
      Rep(117, UNIT_LEN + 1) }

CodecTtls == {-1, 1, 300, INT_MAX}

CodecWrites ==
    { Req(n.asset, n.metric, <<120>>, <<117>>, 0) : n \in CodecNames }
    \cup { Req(AssetA, MetricM, v, <<117>>, 0) : v \in CodecValues }
    \cup { Req(AssetA, MetricM, <<120>>, u, 0) : u \in CodecUnits }
    \cup { Req(AssetA, MetricM, <<120>>, <<117>>, t) : t \in CodecTtls }
    \cup { Req(AssetA, MetricM, Rep(120, PAYLOAD_LEN), Rep(117, UNIT_LEN), 0) }

\* entries another program left in the directory: a ':' but no ".metric",
\* ".metric" but no ':'
ForeignNoSuffix == <<97, CH_COLON, 120>>
ForeignNoColon == <<120>> \o METRIC_SUFFIX
ForeignNames == {ForeignNoSuffix, ForeignNoColon}

\* their content: the bytes of a record that expires after a second
ForeignDatas == { EncodeBuf(<<120>>, <<117>>, 1) }

ForeignWrites == { Req(AssetA, MetricM, <<121>>, <<118>>, 1) }

\* the bytes that may follow the buffer of read_value in memory
Overread == { <<>>, <<71>> }

\* what the caller's outputs may hold before a call
PriorOut == { [value |-> <<111>>, unit |-> <<112>>] }
PriorAssets == { <<AssetA, AssetA>> }
PriorMetrics == { Put(EmptyFn, <<122>>, [value |-> <<111>>, unit |-> <<112>>]) }

\* ---------------------------------------------------------------- results
Result(op, asset, metric, ret, errno, out) ==
    [op |-> op, asset |-> asset, metric |-> metric, ret |-> ret, errno |-> errno,
     time |-> now, out |-> out]

IdleProc == [pc |-> "idle"]

Init ==
    /\ fs = EmptyFs
    /\ now = 0
    /\ res = [op |-> "none", asset |-> <<>>, metric |-> <<>>, ret |-> 0,
              errno |-> "", time |-> 0, out |-> <<>>]
    /\ hist = EmptyFn
    /\ proc = [wr |-> IdleProc, rd |-> IdleProc, cl |-> IdleProc, cl2 |-> IdleProc,
               dl |-> IdleProc]
    /\ obs = [judged |-> {}, fresh |-> EmptyFn, zero |-> {}, cl_ret |-> 0,
              lost |-> FALSE, other |-> FALSE, moved |-> {}, out |-> {},
              dl_ret |-> 0, dl_failed |-> FALSE]

\* the clock advances
Tick(max) ==
    /\ now < max
    /\ now' = now + 1
    /\ UNCHANGED <<fs, res, hist, proc, obs>>

\* the history kept for the inodes that still exist
Keep(h, f) == [i \in (DOMAIN h) \cap (DOMAIN f.files) |-> h[i]]

\* -------------------------------------------- calls by one caller at a time
SeqWrite(inputs) ==
    \E w \in inputs :
        LET r == fty_shm_write_metric(fs, w.asset, w.metric, w.value, w.unit, w.ttl, now)
            f == prepare_filename(w.asset, w.metric)
        IN  /\ r.fs.next <= MaxIno + 1
            /\ fs' = r.fs
            /\ hist' = IF r.ret = 0 /\ f.ret = 0 /\ f.name \in DOMAIN r.fs.dir
                       THEN Put(hist, r.fs.dir[f.name], w @@ [time |-> now])
                       ELSE hist
            /\ res' = Result("write", w.asset, w.metric, r.ret, r.errno, w)
            /\ UNCHANGED <<now, proc, obs>>

SeqRead(inputs) ==
    \E n \in inputs, need_unit \in BOOLEAN, over \in Overread, out \in PriorOut :
        LET r == fty_shm_read_metric(fs, n.asset, n.metric, need_unit, now, over, out)
        IN  /\ res' = Result("read", n.asset, n.metric, r.ret, r.errno,
                        [value |-> r.value, unit |-> r.unit, need_unit |-> need_unit,
                         in |-> out,
                         after_write |-> /\ res.op = "write" /\ res.ret = 0
                                         /\ res.asset = n.asset /\ res.metric = n.metric
                                         /\ res.time = now])
            /\ UNCHANGED <<fs, now, hist, proc, obs>>

SeqDeleteAsset ==
    \E asset \in Assets, dirOk \in BOOLEAN :
        LET r == fty_shm_delete_asset(fs, asset, dirOk)
        IN  /\ fs' = Reclaim(r.fs, {})
            /\ hist' = Keep(hist, fs')
            /\ res' = Result("delete_asset", asset, <<>>, r.ret, "",
                        [dirOk |-> dirOk,
                         removed |-> (DOMAIN fs.dir) \ (DOMAIN r.fs.dir)])
            /\ UNCHANGED <<now, proc, obs>>

SeqFindAssets ==
    \E prior \in PriorAssets, dirOk \in BOOLEAN :
        LET r == find_assets(fs, prior, dirOk)
        IN  /\ res' = Result("find_assets", <<>>, <<>>, r.ret, "",
                        [assets |-> r.assets, in |-> prior, dirOk |-> dirOk])
            /\ UNCHANGED <<fs, now, hist, proc, obs>>

SeqReadAssetMetrics ==
    \E asset \in Assets, prior \in PriorMetrics, dirOk \in BOOLEAN, over \in Overread :
        LET r == read_asset_metrics(fs, asset, prior, dirOk, now, over)
        IN  /\ res' = Result("read_asset_metrics", asset, <<>>, r.ret, "",
                        [metrics |-> r.metrics, in |-> prior, dirOk |-> dirOk])
            /\ UNCHANGED <<fs, now, hist, proc, obs>>

SeqCleanupP(dirOks) ==
    \E dirOk \in dirOks :
      \E r \in {fty_shm_cleanup(fs, dirOk, now)} :
        \E f \in {Reclaim(r.fs, {})} :
            /\ fs' = f
            /\ hist' = Keep(hist, f)
            /\ res' = Result("cleanup", <<>>, <<>>, r.ret, "",
                        [dirOk |-> dirOk,
                         before |-> { [name |-> n, ttl |-> hist[fs.dir[n]].ttl,
                                       age |-> now - hist[fs.dir[n]].time] :
                                      n \in {m \in DOMAIN fs.dir :
                                                fs.dir[m] \in DOMAIN hist} },
                         after |-> DOMAIN r.fs.dir])
            /\ UNCHANGED <<now, proc, obs>>

SeqCleanup == SeqCleanupP(BOOLEAN)

\* the record codec and the name codec, on the inputs at their limits
CodecNext ==
    \/ SeqWrite(CodecWrites)
    \/ SeqRead(CodecNames)

SpecCodec == Init /\ [][CodecNext]_vars

\* one record as time passes: written, read, collected
TtlNext ==
    \/ Tick(MaxTime)
    \/ SeqWrite(TtlWrites)
    \/ SeqRead(TtlReads)
    \/ SeqCleanup

SpecTtl == Init /\ [][TtlNext]_vars

\* one record that is written, ages and is collected, the clock stopping at
\* MaxTime: a record that expires is only written while the clock can still
\* reach the age at which cleanup removes it
LiveWrites == {w \in TtlWrites : w.ttl <= 0 \/ now + 2 * w.ttl + 2 <= MaxTime}

\* a cleanup call whose opendir succeeds
CleanupOk == SeqCleanupP({TRUE})

LiveNext ==
    \/ Tick(MaxTime)
    \/ SeqWrite(LiveWrites)
    \/ SeqRead(TtlReads)
    \/ SeqCleanup

\* time advances and cleanup is called again and again
SpecLive ==
    /\ Init /\ [][LiveNext]_vars
    /\ WF_vars(Tick(MaxTime))
    /\ WF_vars(CleanupOk)

\* the scans over several records of two assets
ScanNext ==
    \/ Tick(ScanMaxTime)
    \/ SeqWrite(ScanWrites)
    \/ SeqDeleteAsset
    \/ SeqFindAssets
    \/ SeqReadAssetMetrics

SpecScan == Init /\ [][ScanNext]_vars

\* a file that did not come from write_metric appears in the directory
ForeignPut(names, datas) ==
    \E n \in names, d \in datas :
        /\ n \notin DOMAIN fs.dir
        /\ fs.next <= MaxIno
        /\ fs' = [dir |-> Put(fs.dir, n, fs.next),
                  files |-> Put(fs.files, fs.next, [data |-> d, mtime |-> now]),
                  next |-> fs.next + 1]
        /\ UNCHANGED <<now, res, hist, proc, obs>>

\* the scans over a directory that holds foreign entries
ForeignNext ==
    \/ Tick(MaxTime)
    \/ ForeignPut(ForeignNames, ForeignDatas)
    \/ SeqWrite(ForeignWrites)
    \/ SeqDeleteAsset
    \/ SeqFindAssets
    \/ SeqReadAssetMetrics
    \/ SeqCleanup

SpecForeign == Init /\ [][ForeignNext]_vars

\* a 128-byte record file whose first ten bytes are ttl10, whatever they are
RawBuf(ttl10) ==
    ttl10 \o <<CH_LF>> \o <<117>> \o Rep(CH_SP, UNIT_LEN - 1) \o <<CH_LF>>
          \o <<120>> \o Rep(NUL, PAYLOAD_LEN - 1)

\* ttl fields: "0000000001", " 000000001", "+000000001", "-000000001",
\* "000000001x", "x000000000"
TtlOne == Rep(CH_0, TTL_LEN - 1) \o <<CH_0 + 1>>
TtlLeadingSpace == <<CH_SP>> \o Rep(CH_0, TTL_LEN - 2) \o <<CH_0 + 1>>
TtlPlus == <<CH_PLUS>> \o Rep(CH_0, TTL_LEN - 2) \o <<CH_0 + 1>>
TtlMinus == <<CH_MINUS>> \o Rep(CH_0, TTL_LEN - 2) \o <<CH_0 + 1>>
TtlTrailing == Rep(CH_0, TTL_LEN - 2) \o <<CH_0 + 1, 120>>
TtlNoDigit == <<120>> \o Rep(CH_0, TTL_LEN - 1)
RawTtls == {TtlOne, TtlLeadingSpace, TtlPlus, TtlMinus, TtlTrailing, TtlNoDigit}

\* what a file under a record's name may hold: nothing yet, or 128 bytes
DecodeDatas == { <<>> } \cup { RawBuf(t) : t \in RawTtls }

DecodeWrites == { Req(AssetA, MetricM, <<121>>, <<118>>, 1) }

\* a stored name, an illegal name, a name that is too long
DecodeReads ==
    { [asset |-> a, metric |-> MetricM] : a \in {AssetA, AssetSlash, AssetBeyond} }

\* reads and cleanups of a record file whose bytes are not what write_metric
\* stores
DecodeNext ==
    \/ Tick(ScanMaxTime)
    \/ ForeignPut({EntryName(AssetA, MetricM)}, DecodeDatas)
    \/ SeqWrite(DecodeWrites)
    \/ SeqRead(DecodeReads)
    \/ SeqCleanup

SpecDecode == Init /\ [][DecodeNext]_vars

\* the records of an asset: one that never expires, one that does, one of
\* another asset, one whose value fills the payload
MetricsWrites ==
    { Req(AssetA, MetricM, <<120>>, <<117>>, 0),
      Req(AssetA, MetricN, <<121>>, <<118>>, 1),
      Req(AssetB, MetricM, <<122>>, <<119>>, 0),
      Req(AssetA, MetricM, Rep(120, PAYLOAD_LEN), <<117>>, 0) }

\* a record file of the asset that is empty or has a corrupt ttl
MetricsDatas == { <<>>, RawBuf(TtlTrailing) }

\* read_asset_metrics over records that are readable, stale, corrupt
MetricsNext ==
    \/ Tick(ScanMaxTime)
    \/ SeqWrite(MetricsWrites)
    \/ ForeignPut({EntryName(AssetA, MetricN)}, MetricsDatas)
    \/ SeqReadAssetMetrics

SpecMetrics == Init /\ [][MetricsNext]_vars

\* ------------------------------------------------- calls that interleave
\* A writer, a reader, a cleanup and a delete_asset, each a process of its
\* own; a step is one system call (with the computation that follows it).
ConcWrites ==
    { Req(AssetA, MetricM, <<120>>, <<117>>, 0),
      Req(AssetA, MetricM, <<121>>, <<118>>, 1) }

ConcReads == { [asset |-> AssetA, metric |-> MetricM] }

ConcAssets == { AssetA }

\* the descriptors the processes hold open
OpenFds(p) ==
    (IF p.wr.pc = "pwrite" THEN {p.wr.fd} ELSE {})
    \cup (IF p.rd.pc \in {"fstat", "read"} THEN {p.rd.fd} ELSE {})
    \cup (IF p.cl.pc = "judge" THEN {p.cl.st1.ino} ELSE {})
    \cup (IF p.cl2.pc = "judge" THEN {p.cl2.st1.ino} ELSE {})

\* write_metric up to open(O_CREAT): the entry exists from here on
WriteOpen ==
    /\ proc.wr.pc = "idle"
    /\ \E w \in ConcWrites :
        LET f == prepare_filename(w.asset, w.metric)
            o == sys_open_creat(fs, f.name, now)
        IN  /\ f.ret = 0 /\ Len(w.value) <= PAYLOAD_LEN /\ Len(w.unit) <= UNIT_LEN
            /\ o.fs.next <= MaxIno + 1
            /\ fs' = o.fs
            /\ proc' = [proc EXCEPT !.wr = [pc |-> "pwrite", req |-> w,
                                            name |-> f.name, fd |-> o.fd]]
            /\ UNCHANGED <<now, res, hist, obs>>

\* pwrite of the whole record, close, return 0
WritePwrite ==
    /\ proc.wr.pc = "pwrite"
    /\ LET w == proc.wr.req
           n == proc.wr.name
           buf == EncodeBuf(w.value, w.unit, w.ttl)
           here == n \in DOMAIN fs.dir /\ fs.dir[n] = proc.wr.fd
       IN  /\ proc' = [proc EXCEPT !.wr = IdleProc]
           /\ fs' = Reclaim(sys_pwrite(fs, proc.wr.fd, buf, now), OpenFds(proc'))
           /\ hist' = Keep(Put(hist, proc.wr.fd, w @@ [time |-> now]), fs')
           /\ obs' = [obs EXCEPT
                !.zero = IF here /\ w.ttl <= 0 THEN @ \cup {n} ELSE @ \ {n},
                !.fresh = IF here /\ (n \in obs.judged \/ n \in DOMAIN @)
                          THEN Put(@, n, buf)
                          ELSE Drop(@, n)]
    /\ UNCHANGED <<now, res>>

\* read_metric up to open: ENOENT, or a descriptor
ReadOpen ==
    /\ proc.rd.pc = "idle"
    /\ \E n \in ConcReads, need_unit \in BOOLEAN, out \in PriorOut :
        LET f == prepare_filename(n.asset, n.metric)
        IN  /\ f.ret = 0
            /\ IF f.name \in DOMAIN fs.dir
               THEN /\ proc' = [proc EXCEPT !.rd =
                            [pc |-> "fstat", asset |-> n.asset, metric |-> n.metric,
                             need_unit |-> need_unit, out |-> out,
                             fd |-> fs.dir[f.name], mtime |-> 0]]
                    /\ UNCHANGED res
               ELSE /\ res' = Result("read", n.asset, n.metric, -1, "ENOENT",
                                [value |-> out.value, unit |-> out.unit,
                                 need_unit |-> need_unit, in |-> out,
                                 after_write |-> FALSE])
                    /\ UNCHANGED proc
    /\ UNCHANGED <<fs, now, hist, obs>>

ReadFstat ==
    /\ proc.rd.pc = "fstat"
    /\ proc' = [proc EXCEPT !.rd.pc = "read",
                            !.rd.mtime = fs.files[proc.rd.fd].mtime]
    /\ UNCHANGED <<fs, now, res, hist, obs>>

\* read_buf, the decoding, close, return
ReadRead ==
    /\ proc.rd.pc = "read"
    /\ \E over \in Overread :
        LET p == proc.rd
            r == read_outputs(read_fd(fs, p.fd, p.mtime, p.need_unit, now, over),
                              p.need_unit, p.out)
        IN  res' = Result("read", p.asset, p.metric, r.ret, r.errno,
                     [value |-> r.value, unit |-> r.unit, need_unit |-> p.need_unit,
                      in |-> p.out, after_write |-> FALSE])
    /\ proc' = [proc EXCEPT !.rd = IdleProc]
    /\ fs' = Reclaim(fs, OpenFds(proc'))
    /\ hist' = Keep(hist, fs')
    /\ UNCHANGED <<now, obs>>

\* The cleanup steps, for the cleanup process c.  The observations in obs
\* are those of the process "cl".
Watch(c, o) == IF c = "cl" THEN o ELSE obs

\* cleanup: opendir
CleanupOpenP(c) ==
    /\ proc[c].pc = "idle"
    /\ proc' = [proc EXCEPT ![c] = [pc |-> "readdir", todo |-> DOMAIN fs.dir,
                                    err |-> 0]]
    /\ obs' = Watch(c, [obs EXCEPT !.judged = {}, !.fresh = EmptyFn,
                                   !.lost = FALSE, !.other = FALSE,
                                   !.moved = {}, !.out = {}])
    /\ UNCHANGED <<fs, now, res, hist>>

\* the next entry: the name tests, openat and fstat
CleanupReaddirP(c) ==
    /\ proc[c].pc = "readdir"
    /\ \E de \in proc[c].todo :
        LET rest == proc[c].todo \ {de}
        IN  IF Len(de) < SUFFIX_LEN \/ ~HasSuffix(de)
            THEN proc' = [proc EXCEPT ![c].todo = rest] /\ UNCHANGED obs
            ELSE IF de \notin DOMAIN fs.dir
            THEN /\ proc' = [proc EXCEPT ![c].todo = rest, ![c].err = -1]
                 /\ obs' = Watch(c, [obs EXCEPT !.other = TRUE])
            ELSE /\ proc' = [proc EXCEPT ![c] = [pc |-> "judge", todo |-> rest,
                                                 err |-> proc[c].err, de |-> de,
                                                 st1 |-> cleanup_stat(fs, de)]]
                 /\ UNCHANGED obs
    /\ UNCHANGED <<fs, now, res, hist>>

\* readdir returns NULL: closedir, return err
CleanupReturnP(c) ==
    /\ proc[c].pc = "readdir"
    /\ proc[c].todo = {}
    /\ proc' = [proc EXCEPT ![c] = IdleProc]
    /\ obs' = Watch(c, [obs EXCEPT !.cl_ret = proc[c].err])
    /\ UNCHANGED <<fs, now, res, hist>>

\* read_buf of the ttl, close, parse_ttl, time, the age test
CleanupJudgeP(c) ==
    /\ proc[c].pc = "judge"
    /\ LET v == cleanup_judge(fs, proc[c].st1, now)
       IN  /\ proc' = [proc EXCEPT
                    ![c].pc = IF v = "eligible" THEN "rename" ELSE "readdir",
                    ![c].err = IF v = "err" THEN -1 ELSE @]
           /\ obs' = Watch(c, [obs EXCEPT
                    !.judged = IF v = "eligible" THEN @ \cup {proc[c].de} ELSE @,
                    !.other = IF v = "err" THEN TRUE ELSE @])
    /\ fs' = Reclaim(fs, OpenFds(proc'))
    /\ hist' = Keep(hist, fs')
    /\ UNCHANGED <<now, res>>

\* renameat(de, ".delete")
CleanupRenameP(c) ==
    /\ proc[c].pc = "rename"
    /\ IF proc[c].de \in DOMAIN fs.dir
       THEN /\ fs' = Reclaim(sys_rename(fs, proc[c].de, DELETE_NAME), OpenFds(proc))
            /\ proc' = [proc EXCEPT ![c].pc = "stat2"]
            /\ obs' = Watch(c, [obs EXCEPT !.moved = @ \cup {proc[c].de}])
       ELSE /\ fs' = fs
            /\ proc' = [proc EXCEPT ![c].pc = "readdir", ![c].err = -1]
            /\ obs' = Watch(c, [obs EXCEPT !.other = TRUE])
    /\ hist' = Keep(hist, fs')
    /\ UNCHANGED <<now, res>>

\* fstatat(".delete") and the comparison of st1 with st2
CleanupStat2P(c) ==
    /\ proc[c].pc = "stat2"
    /\ IF DELETE_NAME \notin DOMAIN fs.dir
       THEN /\ proc' = [proc EXCEPT ![c].pc = "readdir", ![c].err = -1]
            /\ obs' = Watch(c, [obs EXCEPT !.other = TRUE])
       ELSE IF fs.dir[DELETE_NAME] = proc[c].st1.ino
       THEN proc' = [proc EXCEPT ![c].pc = "unlink"] /\ UNCHANGED obs
       ELSE proc' = [proc EXCEPT ![c].pc = "restore"] /\ UNCHANGED obs
    /\ UNCHANGED <<fs, now, res, hist>>

\* unlinkat(".delete") of the entry found unchanged
CleanupUnlinkP(c) ==
    /\ proc[c].pc = "unlink"
    /\ IF DELETE_NAME \in DOMAIN fs.dir
       THEN /\ fs' = Reclaim(sys_unlink(fs, DELETE_NAME), OpenFds(proc))
            /\ proc' = [proc EXCEPT ![c].pc = "readdir"]
            /\ obs' = Watch(c, [obs EXCEPT
                    !.out = @ \cup {[de |-> proc[c].de, how |-> "Deleted"]}])
       ELSE /\ fs' = fs
            /\ proc' = [proc EXCEPT ![c].pc = "readdir", ![c].err = -1]
            /\ obs' = Watch(c, [obs EXCEPT !.other = TRUE])
    /\ hist' = Keep(hist, fs')
    /\ UNCHANGED <<now, res>>

\* rename_noreplace(".delete", de): it fails with EEXIST when de exists
CleanupRestoreP(c) ==
    /\ proc[c].pc = "restore"
    /\ IF DELETE_NAME \in DOMAIN fs.dir /\ proc[c].de \notin DOMAIN fs.dir
       THEN /\ fs' = sys_rename(fs, DELETE_NAME, proc[c].de)
            /\ proc' = [proc EXCEPT ![c].pc = "readdir"]
            /\ obs' = Watch(c, [obs EXCEPT
                    !.out = @ \cup {[de |-> proc[c].de, how |-> "RacedAndRestored"]}])
       ELSE /\ fs' = fs
            /\ proc' = [proc EXCEPT ![c].pc = "discard"]
            /\ obs' = Watch(c, IF DELETE_NAME \in DOMAIN fs.dir
                               THEN [obs EXCEPT !.lost = TRUE]
                               ELSE [obs EXCEPT !.other = TRUE])
    /\ UNCHANGED <<now, res, hist>>

\* the failed restore without the unlinkat(".delete")
CleanupDiscardP_keep(c) ==
    /\ proc[c].pc = "discard"
    /\ proc' = [proc EXCEPT ![c].pc = "readdir", ![c].err = -1]
    /\ obs' = Watch(c, [obs EXCEPT
            !.out = @ \cup {[de |-> proc[c].de, how |-> "RacedAndSuperseded"]}])
    /\ UNCHANGED <<fs, now, res, hist>>

\* unlinkat(".delete") after the failed restore; err = -1
CleanupDiscardP(c) ==
    /\ proc[c].pc = "discard"
    /\ fs' = IF DELETE_NAME \in DOMAIN fs.dir
             THEN Reclaim(sys_unlink(fs, DELETE_NAME), OpenFds(proc))
             ELSE fs
    /\ proc' = [proc EXCEPT ![c].pc = "readdir", ![c].err = -1]
    /\ obs' = Watch(c, [obs EXCEPT
            !.out = @ \cup {[de |-> proc[c].de, how |-> "RacedAndSuperseded"]}])
    /\ hist' = Keep(hist, fs')
    /\ UNCHANGED <<now, res>>

\* the cleanup process "cl"
CleanupOpen == CleanupOpenP("cl")
CleanupReaddir == CleanupReaddirP("cl")
CleanupReturn == CleanupReturnP("cl")
CleanupJudge == CleanupJudgeP("cl")
CleanupRename == CleanupRenameP("cl")
CleanupStat2 == CleanupStat2P("cl")
CleanupUnlink == CleanupUnlinkP("cl")
CleanupRestore == CleanupRestoreP("cl")
CleanupDiscard == CleanupDiscardP("cl")

\* delete_asset: opendir
DeleteOpen ==
    /\ proc.dl.pc = "idle"
    /\ \E asset \in ConcAssets :
        proc' = [proc EXCEPT !.dl = [pc |-> "readdir", asset |-> asset,
                                     todo |-> DOMAIN fs.dir, err |-> 0]]
    /\ obs' = [obs EXCEPT !.dl_failed = FALSE]
    /\ UNCHANGED <<fs, now, res, hist>>

\* one turn of the loop of delete_asset
DeleteReaddir ==
    /\ proc.dl.pc = "readdir"
    /\ \E de \in proc.dl.todo :
        LET r == delete_entry(fs, de, proc.dl.asset)
            gone == de \in DOMAIN fs.dir /\ de \notin DOMAIN r.fs.dir
        IN  /\ fs' = Reclaim(r.fs, OpenFds(proc))
            /\ proc' = [proc EXCEPT !.dl.todo = @ \ {de},
                                    !.dl.err = IF r.err < 0 THEN -1 ELSE @]
            /\ obs' = IF gone
                      THEN [obs EXCEPT !.zero = @ \ {de}, !.fresh = Drop(@, de)]
                      ELSE [obs EXCEPT !.dl_failed = @ \/ r.err < 0]
    /\ hist' = Keep(hist, fs')
    /\ UNCHANGED <<now, res>>

DeleteReturn ==
    /\ proc.dl.pc = "readdir"
    /\ proc.dl.todo = {}
    /\ proc' = [proc EXCEPT !.dl = IdleProc]
    /\ obs' = [obs EXCEPT !.dl_ret = proc.dl.err]
    /\ UNCHANGED <<fs, now, res, hist>>

\* cleanup against a writer and a delete_asset
Next ==
    \/ Tick(MaxTime)
    \/ WriteOpen \/ WritePwrite
    \/ CleanupOpen \/ CleanupReaddir \/ CleanupReturn \/ CleanupJudge
    \/ CleanupRename \/ CleanupStat2 \/ CleanupUnlink \/ CleanupRestore
    \/ CleanupDiscard
    \/ DeleteOpen \/ DeleteReaddir \/ DeleteReturn

Spec == Init /\ [][Next]_vars

\* two cleanups at once, over two records that expire
Cleaners == {"cl", "cl2"}

GcWrites ==
    { Req(AssetA, MetricM, <<120>>, <<117>>, 1),
      Req(AssetB, MetricM, <<121>>, <<118>>, 1) }

\* the directory after both records were written at time 0
TwoFs ==
    LET a == CHOOSE w \in GcWrites : w.asset = AssetA
        b == CHOOSE w \in GcWrites : w.asset = AssetB
        f == fty_shm_write_metric(EmptyFs, a.asset, a.metric, a.value, a.unit, a.ttl, 0).fs
    IN  fty_shm_write_metric(f, b.asset, b.metric, b.value, b.unit, b.ttl, 0).fs

\* both records were written at time 0 and the clock shows MaxTime
InitTwo ==
    /\ fs = TwoFs
    /\ now = MaxTime
    /\ res = [op |-> "none", asset |-> <<>>, metric |-> <<>>, ret |-> 0,
              errno |-> "", time |-> 0, out |-> <<>>]
    /\ hist = [i \in Linked(TwoFs) |->
                (CHOOSE w \in GcWrites :
                    TwoFs.dir[EntryName(w.asset, w.metric)] = i) @@ [time |-> 0]]
    /\ proc = [wr |-> IdleProc, rd |-> IdleProc, cl |-> IdleProc, cl2 |-> IdleProc,
               dl |-> IdleProc]
    /\ obs = [judged |-> {}, fresh |-> EmptyFn, zero |-> {}, cl_ret |-> 0,
              lost |-> FALSE, other |-> FALSE, moved |-> {}, out |-> {},
              dl_ret |-> 0, dl_failed |-> FALSE]

TwoNext ==
    \/ SeqWrite(GcWrites)
    \/ \E c \in Cleaners : CleanupOpenP(c)
    \/ \E c \in Cleaners : CleanupReaddirP(c)
    \/ \E c \in Cleaners : CleanupReturnP(c)
    \/ \E c \in Cleaners : CleanupJudgeP(c)
    \/ \E c \in Cleaners : CleanupRenameP(c)
    \/ \E c \in Cleaners : CleanupStat2P(c)
    \/ \E c \in Cleaners : CleanupUnlinkP(c)
    \/ \E c \in Cleaners : CleanupRestoreP(c)
    \/ \E c \in Cleaners : CleanupDiscardP(c)

SpecTwo == InitTwo /\ [][TwoNext]_vars

\* what the file under a third name may hold: nothing, a header cut one byte
\* short of the payload, a record whose ttl field does not parse, a record
\* that expires
ShortRec == SubSeq(RawBuf(TtlOne), 1, PAYLOAD_START - 1)
AggDatas == { <<>>, ShortRec, RawBuf(TtlTrailing), RawBuf(TtlOne) }
AggName == EntryName(AssetA, MetricN)

\* the directory of TwoFs with one more file, stored at time 0
AggFs(d) ==
    [dir |-> Put(TwoFs.dir, AggName, TwoFs.next),
     files |-> Put(TwoFs.files, TwoFs.next, [data |-> d, mtime |-> 0]),
     next |-> TwoFs.next + 1]

InitAgg ==
    /\ fs \in { AggFs(d) : d \in AggDatas }
    /\ now = MaxTime
    /\ res = [op |-> "none", asset |-> <<>>, metric |-> <<>>, ret |-> 0,
              errno |-> "", time |-> 0, out |-> <<>>]
    /\ hist = [i \in Linked(TwoFs) |->
                (CHOOSE w \in GcWrites :
                    TwoFs.dir[EntryName(w.asset, w.metric)] = i) @@ [time |-> 0]]
    /\ proc = [wr |-> IdleProc, rd |-> IdleProc, cl |-> IdleProc, cl2 |-> IdleProc,
               dl |-> IdleProc]
    /\ obs = [judged |-> {}, fresh |-> EmptyFn, zero |-> {}, cl_ret |-> 0,
              lost |-> FALSE, other |-> FALSE, moved |-> {}, out |-> {},
              dl_ret |-> 0, dl_failed |-> FALSE]

\* cleanup calls between the steps of a delete_asset, over records that
\* expire and a file that is short or corrupt
AggNext ==
    \/ SeqWrite(GcWrites)
    \/ SeqCleanup
    \/ DeleteOpen \/ DeleteReaddir \/ DeleteReturn

SpecAgg == InitAgg /\ [][AggNext]_vars

\* a reader against a writer
RWNext ==
    \/ Tick(ScanMaxTime)
    \/ WriteOpen \/ WritePwrite
    \/ ReadOpen \/ ReadFstat \/ ReadRead

SpecRW == Init /\ [][RWNext]_vars

\* ------------------------------------------------------------ properties
Illegal(s) == \E i \in 1..Len(s) : s[i] \in {CH_SLASH, CH_COLON}
EncodedLen(asset, metric) == Len(asset) + 1 + Len(metric) + SUFFIX_LEN
Range(q) == {q[i] : i \in 1..Len(q)}
NoDup(q) == \A i, j \in 1..Len(q) : q[i] = q[j] => i = j

\* the request that wrote the record stored under (asset, metric) last
LastWrite(asset, metric) == hist[fs.dir[EntryName(asset, metric)]]

\* C1: a successful write_metric with ttl=0 followed at once by read_metric of
\* the same (asset, metric) returns exactly the written value and unit.
C1_RoundTrip ==
    (res.op = "read" /\ res.out.after_write
        /\ LastWrite(res.asset, res.metric).ttl = 0)
    => /\ res.ret = 0
       /\ res.out.value = LastWrite(res.asset, res.metric).value
       /\ res.out.need_unit => res.out.unit = LastWrite(res.asset, res.metric).unit

\* C2: a record written with ttl <= 0 is read successfully at every later
\* time; a record written at time t with ttl = T > 0 is read successfully
\* while now - t <= T and read_metric fails with ESTALE once now - t > T.
C2_TtlSemantics ==
    (res.op = "read" /\ EntryName(res.asset, res.metric) \in DOMAIN fs.dir)
    => LET w == LastWrite(res.asset, res.metric)
       IN  IF w.ttl <= 0 \/ res.time - w.time <= w.ttl
           THEN res.ret = 0
           ELSE res.ret = -1 /\ res.errno = "ESTALE"

C2_Witness ==
    /\ res.op = "read" /\ res.errno = "ESTALE"
    /\ EntryName(res.asset, res.metric) \in DOMAIN fs.dir
    /\ res.time - LastWrite(res.asset, res.metric).time
         = LastWrite(res.asset, res.metric).ttl + 1

C9_Original ==
    res.op \in {"write", "read"}
    => LET bad == Illegal(res.asset) \/ Illegal(res.metric)
           n == EncodedLen(res.asset, res.metric)
       IN  /\ bad => res.ret = -1 /\ res.errno = "EINVAL"
           /\ (~bad /\ n > NAME_MAX) => res.ret = -1 /\ res.errno = "ENAMETOOLONG"
           /\ (~bad /\ n <= NAME_MAX) => res.errno \notin {"EINVAL", "ENAMETOOLONG"}

\* C9 as amended: a pair whose encoded entry name is longer than NAME_MAX is
\* rejected with ENAMETOOLONG whatever its characters; a pair within NAME_MAX
\* with '/' or ':' in the asset or the metric is rejected with EINVAL; a legal
\* pair of at most NAME_MAX, exactly NAME_MAX included, is accepted.
C9_NameValidation ==
    (res.op = "read" \/ (res.op = "write" /\ Len(res.out.value) <= PAYLOAD_LEN
                                      /\ Len(res.out.unit) <= UNIT_LEN))
    => LET bad == Illegal(res.asset) \/ Illegal(res.metric)
           n == EncodedLen(res.asset, res.metric)
       IN  /\ n > NAME_MAX => res.ret = -1 /\ res.errno = "ENAMETOOLONG"
           /\ (n <= NAME_MAX /\ bad) => res.ret = -1 /\ res.errno = "EINVAL"
           /\ (n <= NAME_MAX /\ ~bad) => res.errno \notin {"EINVAL", "ENAMETOOLONG"}
           /\ (n <= NAME_MAX /\ ~bad /\ res.op = "write") => res.ret = 0

C9_Witness ==
    /\ res.op = "write"
    /\ Illegal(res.asset)
    /\ EncodedLen(res.asset, res.metric) > NAME_MAX
    /\ res.errno = "ENAMETOOLONG"

\* the assets that own at least one record of the directory, by the requests
\* that wrote the records
Owners == {hist[i].asset : i \in Linked(fs)}

\* a record of asset that read_metric reads successfully at time t
Readable(asset, t) ==
    \E i \in Linked(fs) :
        /\ hist[i].asset = asset
        /\ hist[i].ttl <= 0 \/ t - hist[i].time <= hist[i].ttl

\* C7: delete_asset(A), run alone, removes every record of asset A and leaves
\* every record of every other asset as it was (name, content, last-write
\* time); afterwards read_metric(A, m) fails with ENOENT for every metric m
\* and find_assets does not contain A.
C7_DeleteAsset ==
    [][ (SeqDeleteAsset /\ res'.out.dirOk)
        => LET A == res'.asset
           IN  /\ res'.ret = 0
               /\ DOMAIN fs'.dir \subseteq DOMAIN fs.dir
               /\ \A n \in DOMAIN fs.dir :
                     IF hist[fs.dir[n]].asset = A
                     THEN n \notin DOMAIN fs'.dir
                     ELSE /\ n \in DOMAIN fs'.dir
                          /\ fs'.dir[n] = fs.dir[n]
                          /\ fs'.files[fs'.dir[n]] = fs.files[fs.dir[n]]
               /\ \A m \in Metrics, out \in PriorOut :
                     LET r == fty_shm_read_metric(fs', A, m, TRUE, now, <<>>, out)
                     IN  r.ret = -1 /\ r.errno = "ENOENT"
               /\ \A prior \in PriorAssets :
                     A \notin Range(find_assets(fs', prior, TRUE).assets) ]_vars

C7_Witness ==
    /\ res.op = "delete_asset" /\ res.out.dirOk /\ res.ret = 0
    /\ Cardinality(res.out.removed) = 2
    /\ DOMAIN fs.dir # {}

\* C8: find_assets returns, without duplicates and whatever the collection
\* held before, exactly the assets that own at least one record of the
\* directory; it is empty when the store holds no record.
C8_FindAssets ==
    (res.op = "find_assets" /\ res.out.dirOk)
    => /\ res.ret = 0
       /\ NoDup(res.out.assets)
       /\ Range(res.out.assets) = Owners

C8_Witness ==
    /\ res.op = "find_assets" /\ res.out.dirOk
    /\ res.out.in # <<>>
    /\ {EntryName(AssetA, MetricM), EntryName(AssetA, MetricN),
        EntryName(AssetB, MetricM)} \subseteq DOMAIN fs.dir
    /\ Len(res.out.assets) = 2

\* C10 as stated: whenever the directory can be opened read_asset_metrics
\* returns success, with an empty map when the asset has no entries or only
\* stale entries.
C10_Original ==
    (res.op = "read_asset_metrics" /\ res.out.dirOk) => res.ret = 0

\* C10 as amended: read_asset_metrics fails when the directory cannot be
\* opened and also when no record of the asset is read successfully: with the
\* directory opened it returns success exactly when at least one record of
\* the asset is read, and it returns failure with an empty map when the asset
\* has no entries or only stale entries.
C10_ReadAssetMetrics ==
    /\ (res.op = "read_asset_metrics" /\ res.out.dirOk)
       => /\ res.ret = 0 <=> Readable(res.asset, res.time)
          /\ res.ret = -1 <=> res.out.metrics = EmptyFn
    /\ (res.op = "read_asset_metrics" /\ ~res.out.dirOk)
       => res.ret = -1 /\ res.out.metrics = res.out.in

C10_Witness ==
    /\ res.op = "read_asset_metrics" /\ res.out.dirOk
    /\ res.ret = -1 /\ res.out.metrics = EmptyFn
    /\ res.asset \in Owners

\* C3: a read_metric that runs against write_metric calls on the same
\* (asset, metric), the first one included, never fails with a short read: it
\* reports ENOENT or decodes the complete record of one write.
C3_AtomicVisibility ==
    res.op = "read"
    => /\ res.errno # "EIO"
       /\ res.ret = 0 =>
            \E w \in ConcWrites :
                /\ res.out.value = w.value
                /\ res.out.need_unit => res.out.unit = w.unit

\* C4: when cleanup has returned, a record that a successful write_metric
\* updated after this cleanup had judged it expired exists under its own name
\* with the written content.
C4_RefreshedSurvives ==
    proc.cl.pc = "idle"
    => \A n \in DOMAIN obs.fresh :
          /\ n \in DOMAIN fs.dir
          /\ fs.files[fs.dir[n]].data = obs.fresh[n]

\* C6: when cleanup has returned, a record whose most recent successful write
\* had ttl = 0, and that no delete_asset removed, exists under its name.
C6_ZeroTtlKept ==
    proc.cl.pc = "idle" => \A n \in obs.zero : n \in DOMAIN fs.dir

\* the entries of a directory that are foreign: no ':' or no ".metric" ending
Foreign(f) ==
    {n \in DOMAIN f.dir :
        strchr(n, CH_COLON) = 0 \/ Len(n) < SUFFIX_LEN \/ ~HasSuffix(n)}

\* the asset and the metric a well-formed entry name decodes to
AssetOf(n) == SubSeq(n, 1, strchr(n, CH_COLON) - 1)
MetricOf(n) == SubSeq(n, strchr(n, CH_COLON) + 1, Len(n) - SUFFIX_LEN)

\* C11: a directory entry whose name has no ':' or does not end in ".metric"
\* is never reported by find_assets, never returned by read_asset_metrics,
\* never unlinked by delete_asset, never renamed or unlinked by cleanup.
C11_ForeignIgnored ==
    [][ LET good == (DOMAIN fs.dir) \ Foreign(fs)
        IN  /\ (SeqFindAssets /\ res'.out.dirOk)
               => Range(res'.out.assets) \subseteq {AssetOf(n) : n \in good}
            /\ (SeqReadAssetMetrics /\ res'.out.dirOk)
               => DOMAIN res'.out.metrics
                    \subseteq {MetricOf(n) : n \in {g \in good : AssetOf(g) = res'.asset}}
            /\ (SeqDeleteAsset \/ SeqCleanup)
               => \A n \in Foreign(fs) :
                     n \in DOMAIN fs'.dir /\ fs'.dir[n] = fs.dir[n] ]_vars

\* C12: when the non-replacing rename of the temporary entry back to the
\* original name fails because a writer has recreated that name, cleanup
\* discards the temporary entry and does not report failure on account of
\* that entry: a cleanup whose only failure was the lost restore returns 0.
C12_LostRaceHandled ==
    /\ (obs.lost /\ proc.cl.pc \in {"idle", "readdir"})
       => DELETE_NAME \notin DOMAIN fs.dir
    /\ (obs.lost /\ ~obs.other /\ proc.cl.pc = "idle") => obs.cl_ret = 0

\* C13: in every reachable state, with write_metric and cleanup calls that
\* run at once and share the temporary name, the file stored under the name
\* <asset>:<metric>.metric holds what a write_metric for that same
\* (asset, metric) wrote.
C13_RecordIdentity ==
    \A n \in DOMAIN fs.dir :
        (n # DELETE_NAME /\ fs.dir[n] \in DOMAIN hist)
        => EntryName(hist[fs.dir[n]].asset, hist[fs.dir[n]].metric) = n

\* the record of TtlReads is stored as request w wrote it at time t
StoredAs(w, t) ==
    /\ EntryName(AssetA, MetricM) \in DOMAIN fs.dir
    /\ hist[fs.dir[EntryName(AssetA, MetricM)]] = w @@ [time |-> t]

\* C14: a record with ttl = T > 0 that is not rewritten after its last write
\* is eventually removed from the directory, provided time advances and
\* cleanup is called again and again without failures; an absent record only
\* comes back by a write_metric for its (asset, metric).
C14_EventualReclamation ==
    /\ \A w \in {x \in TtlWrites : x.ttl > 0}, t \in 0..MaxTime :
          StoredAs(w, t) ~> ~StoredAs(w, t)
    /\ [][ (EntryName(AssetA, MetricM) \notin DOMAIN fs.dir
            /\ EntryName(AssetA, MetricM) \in DOMAIN fs'.dir)
           => (res'.op = "write" /\ res'.ret = 0
               /\ res'.asset = AssetA /\ res'.metric = MetricM) ]_vars

C14_Witness ==
    /\ res.op = "cleanup" /\ res.ret = 0
    /\ EntryName(AssetA, MetricM) \notin DOMAIN fs.dir
    /\ \E e \in res.out.before :
          e.name = EntryName(AssetA, MetricM) /\ e.ttl > 0 /\ e.age > 2 * e.ttl

\* the record of (asset, metric) is in the directory, under its name or
\* under the temporary name
Held(f, h, asset, metric) ==
    \E n \in DOMAIN f.dir :
        /\ f.dir[n] \in DOMAIN h
        /\ h[f.dir[n]].asset = asset /\ h[f.dir[n]].metric = metric

\* C14, with cleanup calls that run at once: once the record of (a, m) is
\* removed from the directory, the entry a:m.metric stays absent until a
\* write_metric for (a, m).
C14_AbsentUntilWrite ==
    [][ (/\ ~Held(fs, hist, AssetA, MetricM)
         /\ EntryName(AssetA, MetricM) \notin DOMAIN fs.dir
         /\ EntryName(AssetA, MetricM) \in DOMAIN fs'.dir)
        => (res'.op = "write" /\ res'.ret = 0
            /\ res'.asset = AssetA /\ res'.metric = MetricM) ]_vars

\* C15: after any sequence of successful write_metric calls, a read_metric
\* of (asset, metric) returns the value and the unit of the most recent write
\* to that (asset, metric), whatever was written there before; the record is
\* stale by the ttl and the time of that write only; and a write to one
\* (asset, metric) changes no other record.
C15_LastWriteWins ==
    /\ [] ((res.op = "read"
              /\ EntryName(res.asset, res.metric) \in DOMAIN fs.dir)
           => LET w == LastWrite(res.asset, res.metric)
              IN  IF w.ttl <= 0 \/ res.time - w.time <= w.ttl
                  THEN /\ res.ret = 0
                       /\ res.out.value = w.value
                       /\ res.out.need_unit => res.out.unit = w.unit
                  ELSE res.ret = -1 /\ res.errno = "ESTALE")
    /\ [][ (res'.op = "write" /\ res' # res)
           => \A n \in DOMAIN fs.dir :
                 n # EntryName(res'.asset, res'.metric)
                 => /\ n \in DOMAIN fs'.dir
                    /\ fs'.dir[n] = fs.dir[n]
                    /\ fs'.files[fs.dir[n]] = fs.files[fs.dir[n]] ]_vars

\* the same for the writes whose value is shorter than the payload and
\* whose unit does not end in a space
C15_ShortValues ==
    /\ [] ((/\ res.op = "read"
            /\ EntryName(res.asset, res.metric) \in DOMAIN fs.dir
            /\ Len(LastWrite(res.asset, res.metric).value) < PAYLOAD_LEN
            /\ LET u == LastWrite(res.asset, res.metric).unit
               IN  u = <<>> \/ u[Len(u)] \notin {CH_SP, CH_LF})
           => LET w == LastWrite(res.asset, res.metric)
              IN  IF w.ttl <= 0 \/ res.time - w.time <= w.ttl
                  THEN /\ res.ret = 0
                       /\ res.out.value = w.value
                       /\ res.out.need_unit => res.out.unit = w.unit
                  ELSE res.ret = -1 /\ res.errno = "ESTALE")
    /\ [][ (res'.op = "write" /\ res' # res)
           => \A n \in DOMAIN fs.dir :
                 n # EntryName(res'.asset, res'.metric)
                 => /\ n \in DOMAIN fs'.dir
                    /\ fs'.dir[n] = fs.dir[n]
                    /\ fs'.files[fs.dir[n]] = fs.files[fs.dir[n]] ]_vars

\* C16: whenever read_metric fails (invalid name, name too long, missing
\* file, short read, corrupt ttl, stale record) the caller's value and unit
\* hold what they held before the call; a successful read that does not ask
\* for the unit sets only the value.
C16_FailedReadKeepsOutputs ==
    res.op = "read"
    => /\ res.ret \in {0, -1}
       /\ res.ret = -1 => /\ res.out.value = res.out.in.value
                          /\ res.out.unit = res.out.in.unit
       /\ (res.ret = 0 /\ ~res.out.need_unit) => res.out.unit = res.out.in.unit

\* a read of a record whose ttl field is corrupt
C16_Witness ==
    /\ res.op = "read" /\ res.ret = -1 /\ res.errno = "ERANGE"
    /\ res.out.need_unit
    /\ res.out.value = res.out.in.value /\ res.out.unit = res.out.in.unit

\* the kinds of failure of read_metric
FailedWith(e) == res.op = "read" /\ res.ret = -1 /\ res.errno = e

\* C17: whenever write_metric fails validation (illegal character in asset
\* or metric, encoded name too long, value longer than 106 bytes, unit longer
\* than 10 bytes) no entry is created and no record's content or last-write
\* time changes: the records and the result of find_assets are as before.
C17_RejectedWriteChangesNothing ==
    [][ (SeqWrite(CodecWrites) /\ res'.ret = -1)
        => /\ fs' = fs
           /\ find_assets(fs', <<>>, TRUE) = find_assets(fs, <<>>, TRUE) ]_vars

\* a write_metric of a value of 107 bytes was rejected while a record is stored
C17_Witness ==
    /\ res.op = "write" /\ res.ret = -1 /\ res.errno = "EINVAL"
    /\ Len(res.out.value) > PAYLOAD_LEN
    /\ fs.dir # EmptyFn

\* C18: every entry that cleanup moved to the temporary name has reached
\* exactly one of Deleted, RacedAndRestored, RacedAndSuperseded when cleanup
\* goes on to the next entry, and when a cleanup call that ran without another
\* cleanup returns, the entry ".delete" does not exist.
C18_EntryStateMachine ==
    proc.cl.pc \in {"idle", "readdir"}
    => /\ DELETE_NAME \notin DOMAIN fs.dir
       /\ \A n \in obs.moved : Cardinality({o \in obs.out : o.de = n}) = 1
       /\ \A o \in obs.out :
             /\ o.de \in obs.moved
             /\ o.how \in {"Deleted", "RacedAndRestored", "RacedAndSuperseded"}

\* cleanup has returned after it restored an entry
C18_Witness ==
    /\ proc.cl.pc = "idle"
    /\ \E o \in obs.out : o.how = "RacedAndRestored"
    /\ DELETE_NAME \notin DOMAIN fs.dir

\* cleanup has returned with an entry that ended as how
Ended(how) == proc.cl.pc = "idle" /\ \E o \in obs.out : o.how = how

\* C18, with cleanup calls that run at once: every entry that cleanup moved
\* to the temporary name has reached exactly one of Deleted,
\* RacedAndRestored, RacedAndSuperseded when cleanup goes on to the next
\* entry.
C18_MovedEntryEnds ==
    proc.cl.pc \in {"idle", "readdir"}
    => \A n \in obs.moved : Cardinality({o \in obs.out : o.de = n}) = 1

\* the ten ttl bytes of a record are decimal digits
AllDigits(data) == \A i \in 1..TTL_LEN : IsDigit(data[i])

\* the 128 bytes stored under name, << >> when there are not that many
Stored(f, name) ==
    IF name \in DOMAIN f.dir /\ Len(f.files[f.dir[name]].data) >= BUF_LEN
    THEN f.files[f.dir[name]].data
    ELSE <<>>

\* C19: whenever one of the first 10 bytes of a record is not a decimal digit
\* (a leading space, a sign, trailing garbage) read_metric fails with the
\* corrupt-ttl error and cleanup does not remove the record; a record is
\* decoded only when all 10 bytes are digits, and its ttl is then not negative.
C19_CorruptTtl ==
    [][ LET data == Stored(fs, EntryName(AssetA, MetricM))
        IN  /\ (/\ SeqRead(DecodeReads) /\ res'.asset = AssetA
                /\ data # <<>> /\ ~AllDigits(data))
               => (res'.ret = -1 /\ res'.errno = "ERANGE")
            /\ (SeqCleanup /\ data # <<>> /\ ~AllDigits(data))
               => Stored(fs', EntryName(AssetA, MetricM)) = data
            /\ (data # <<>> /\ AllDigits(data))
               => (parse_ttl(data).ret = 0 /\ parse_ttl(data).ttl >= 0) ]_vars

\* the entries of asset that read_metric reads successfully at time t
ReadableEntries(f, asset, t) ==
    {n \in (DOMAIN f.dir) \ Foreign(f) :
        /\ AssetOf(n) = asset
        /\ fty_shm_read_metric(f, asset, MetricOf(n), TRUE, t, <<>>,
                               [value |-> <<>>, unit |-> <<>>]).ret = 0}

\* C20: with no concurrent operation the map read_asset_metrics(asset)
\* returns holds exactly one entry per record of the asset that read_metric
\* would read successfully at that moment, keyed by the metric name, with the
\* value and unit of that record; it holds no entry for a stale or corrupt
\* record, for another asset's record, or from its previous content, and a
\* stale or corrupt record does not keep back the other records.
C20_MetricsContent ==
    [][ (SeqReadAssetMetrics /\ res'.out.dirOk)
        => LET good == ReadableEntries(fs, res'.asset, now)
           IN  /\ DOMAIN res'.out.metrics = {MetricOf(n) : n \in good}
               /\ \A n \in good :
                     /\ fs.dir[n] \in DOMAIN hist
                     /\ res'.out.metrics[MetricOf(n)]
                          = [value |-> hist[fs.dir[n]].value,
                             unit |-> hist[fs.dir[n]].unit] ]_vars

\* the same when no readable record of the asset has a value that fills the
\* payload
C20_ShortValues ==
    [][ (/\ SeqReadAssetMetrics /\ res'.out.dirOk
         /\ \A n \in ReadableEntries(fs, res'.asset, now) :
               /\ fs.dir[n] \in DOMAIN hist
               /\ Len(hist[fs.dir[n]].value) < PAYLOAD_LEN)
        => LET good == ReadableEntries(fs, res'.asset, now)
           IN  /\ DOMAIN res'.out.metrics = {MetricOf(n) : n \in good}
               /\ \A n \in good :
                     res'.out.metrics[MetricOf(n)]
                       = [value |-> hist[fs.dir[n]].value,
                          unit |-> hist[fs.dir[n]].unit] ]_vars

\* the entry a turn of the loop of delete_asset belongs to the asset
OfAsset(de, asset) == strchr(de, CH_COLON) > 0 /\ AssetOf(de) = asset

\* the entry of the directory is the same file in f and in g
SameEntry(f, g, de) ==
    /\ de \in DOMAIN g.dir
    /\ g.dir[de] = f.dir[de]
    /\ g.files[g.dir[de]] = f.files[f.dir[de]]

\* C21: in cleanup and in delete_asset a failure on one entry never stops the
\* scan: every entry ends as it would have ended had it been scanned alone,
\* and the call whose opendir succeeded returns -1 if and only if at least
\* one entry failed; cleanup leaves a record file shorter than the 22-byte
\* header in place and does not count it as a failure.
C21_ScanAggregation ==
    [][ /\ (SeqCleanup /\ res'.out.dirOk)
           => /\ res'.ret \in {0, -1}
              /\ res'.ret = -1
                    <=> \E de \in DOMAIN fs.dir : cleanup_entry(fs, de, now).err < 0
              /\ DOMAIN fs'.dir \subseteq DOMAIN fs.dir
              /\ \A de \in DOMAIN fs.dir :
                    /\ de \in DOMAIN fs'.dir
                          <=> de \in DOMAIN cleanup_entry(fs, de, now).fs.dir
                    /\ de \in DOMAIN fs'.dir => SameEntry(fs, fs', de)
                    /\ (HasSuffix(de)
                            /\ Len(fs.files[fs.dir[de]].data) < PAYLOAD_START)
                          => /\ cleanup_entry(fs, de, now).err = 0
                             /\ SameEntry(fs, fs', de)
        /\ DeleteReaddir
           => \A de \in proc.dl.todo \ proc'.dl.todo :
                 /\ OfAsset(de, proc.dl.asset) => de \notin DOMAIN fs'.dir
                 /\ \A n \in (DOMAIN fs.dir) \ {de} : SameEntry(fs, fs', n)
                 /\ ~OfAsset(de, proc.dl.asset) => fs'.dir = fs.dir
                 /\ obs'.dl_failed
                       = (obs.dl_failed
                            \/ (OfAsset(de, proc.dl.asset) /\ de \notin DOMAIN fs.dir))
        /\ (proc.dl.pc = "readdir" /\ proc'.dl.pc = "idle")
           => /\ proc.dl.todo = {}
              /\ obs'.dl_ret \in {0, -1}
              /\ obs'.dl_ret = -1 <=> obs.dl_failed ]_vars

\* a cleanup returned -1 for the file whose ttl does not parse and still
\* removed an expired record, and a delete_asset that had returned -1 for an
\* entry that was gone still removed the file of its asset
C21_Witness ==
    /\ res.op = "cleanup" /\ res.ret = -1 /\ res.out.dirOk
    /\ res.out.before # {} /\ res.out.after = {AggName}
    /\ proc.dl.pc = "idle" /\ obs.dl_ret = -1
    /\ fs.dir = EmptyFn

====
